---- MODULE Spec2Model ----
(***************************************************************************)
(* Model of src/main.py: the ticker lookup (getTicker), the data loader    *)
(* with its bounded retry (load_data) and the main application logic that  *)
(* calls it.  The price provider (yf.download), the ticker search service  *)
(* (requests.get) and the forecasting engine (Prophet) are external: each  *)
(* call answers with any value of a bounded set.                           *)
(***************************************************************************)
EXTENDS Integers, Sequences, FiniteSets, TLC

(* ---------------- bounds ---------------- *)
MaxLen == 2      \* longest string typed by the user or returned by the search
MaxRows == 2     \* most rows in a short downloaded price series
MaxAttemptsArg == 4  \* largest attempt / max_attempts a caller passes

(* ---------------- program constants ---------------- *)
DefaultMaxAttempts == 3

\* line 33: the search is asked for a single best match
quotes_count == 1

\* line 148: the fewest points the forecast runs on
MinForecastPoints == 2

\* line 145: below this many points a warning is shown
ReliablePoints == 10

(* ---------------- strings ---------------- *)
\* A string is a sequence of characters; "a"/"b" are the lower-case letters.
Chars == {"A", "a", "B", "b"}

Text == UNION {[1..n -> Chars] : n \in 0..MaxLen}

\* Python's None, and a JSON value that is not a string (a number).
None == <<"None">>

NonString == <<"Number">>

UpperChar(c) == IF c = "a" THEN "A" ELSE IF c = "b" THEN "B" ELSE c

\* str.upper()
upper(s) == [i \in 1..Len(s) |-> UpperChar(s[i])]

\* Python truthiness of a str-or-None value.
Truthy(x) == x # None /\ x # <<>>

(* ---------------- the ticker search service ---------------- *)
\* One entry of the quotes list: a mapping that may or may not hold "symbol".
QuoteEntries ==
    {[has_symbol |-> FALSE, symbol |-> None]}
    \cup {[has_symbol |-> TRUE, symbol |-> s] : s \in Text \cup {None, NonString}}

QuoteLists == UNION {[1..n -> QuoteEntries] : n \in 0..quotes_count}

NoBody == [is_mapping |-> FALSE, has_quotes |-> FALSE, quotes |-> <<>>]

\* The decoded JSON body: not a mapping, a mapping without "quotes", or a
\* mapping whose "quotes" is a list.
JsonBodies ==
    {NoBody, [is_mapping |-> TRUE, has_quotes |-> FALSE, quotes |-> <<>>]}
    \cup {[is_mapping |-> TRUE, has_quotes |-> TRUE, quotes |-> q] :
             q \in QuoteLists}

\* What requests.get / raise_for_status / res.json() can do.
Responses ==
    {[kind |-> k, json |-> NoBody] :
        k \in {"Timeout", "ConnectionError", "HTTPError", "NotJSON"}}
    \cup {[kind |-> "OK", json |-> d] : d \in JsonBodies}

\* The classes an exception is an instance of.
Classes(e) ==
    CASE e = "Timeout" -> {"Timeout", "RequestException", "Exception"}
      [] e = "ConnectionError" -> {"RequestException", "Exception"}
      [] e = "HTTPError" -> {"RequestException", "Exception"}
      [] e = "JSONDecodeError" -> {"ValueError", "Exception"}
      [] e = "ValueError" -> {"ValueError", "Exception"}
      [] e = "OTHER" -> {"Exception"}
      [] OTHER -> {e, "Exception"}

\* The body of getTicker's try block: the exception it raises ("none" when
\* it returns) and the value it returns.
getTickerTry(company_name_or_ticker, res) ==
    IF res.kind = "Timeout" THEN [exc |-> "Timeout", value |-> None]
    ELSE IF res.kind = "ConnectionError"
        THEN [exc |-> "ConnectionError", value |-> None]
    ELSE IF res.kind = "HTTPError" THEN [exc |-> "HTTPError", value |-> None]
    ELSE IF res.kind = "NotJSON"
        THEN [exc |-> "JSONDecodeError", value |-> None]
    ELSE LET d == res.json IN
        IF ~d.is_mapping THEN [exc |-> "TypeError", value |-> None]
        ELSE IF d.has_quotes /\ d.quotes # <<>>
            THEN IF ~d.quotes[1].has_symbol
                THEN [exc |-> "KeyError", value |-> None]
                ELSE IF d.quotes[1].symbol = NonString
                    THEN [exc |-> "AttributeError", value |-> None]
                    ELSE IF Truthy(d.quotes[1].symbol)
                        THEN [exc |-> "none", value |-> d.quotes[1].symbol]
                        ELSE [exc |-> "none", value |-> None]
            ELSE [exc |-> "none", value |-> None]

GetTickerHandlersNoCatchAll ==
    <<{"Timeout"}, {"RequestException"}, {"KeyError", "IndexError", "TypeError"}>>

\* The except clauses of getTicker, in order; each returns None.
GetTickerHandlers ==
    <<{"Timeout"}, {"RequestException"}, {"KeyError", "IndexError", "TypeError"},
      {"Exception"}>>

Caught(e, handlers) ==
    \E i \in 1..Len(handlers) : handlers[i] \cap Classes(e) # {}

getTickerFallback(company_name_or_ticker, res) ==
    LET r == getTickerTry(company_name_or_ticker, res) IN
    IF r.exc = "none" /\ r.value # None
        THEN [raised |-> "none", value |-> r.value]
        ELSE [raised |-> "none", value |-> company_name_or_ticker]

\* getTicker as a whole: what it returns, or the exception that escapes it.
getTicker(company_name_or_ticker, res) ==
    LET r == getTickerTry(company_name_or_ticker, res) IN
    IF r.exc = "none" THEN [raised |-> "none", value |-> r.value]
    ELSE IF Caught(r.exc, GetTickerHandlers)
        THEN [raised |-> "none", value |-> None]
        ELSE [raised |-> r.exc, value |-> None]

(* ---------------- load_data's decisions ---------------- *)
IsEmptyFewRows(rows) == rows < 2

\* data.empty
IsEmpty(rows) == rows = 0

ShouldLookupAlways(ticker, initial, att) == TRUE

ShouldLookupNever(ticker, initial, att) == FALSE

\* line 96: look up only the original input, or on the first attempt
ShouldLookup(ticker, initial, att) ==
    upper(ticker) = upper(initial) \/ att = 0

IsNewSymbolAnyTruthy(resolved, ticker) == Truthy(resolved)

IsNewSymbolCaseSensitive(resolved, ticker) ==
    Truthy(resolved) /\ resolved # ticker

IsNewSymbolUnguarded(resolved, ticker) == upper(resolved) # upper(ticker)

\* line 100: a symbol was found and it is not the one that just failed
IsNewSymbol(resolved, ticker) ==
    Truthy(resolved) /\ upper(resolved) # upper(ticker)

RetrySymbolSame(resolved, ticker) == ticker

\* line 102: the arguments of the recursive call
RetrySymbol(resolved, ticker) == resolved

RetryAttemptSame(att) == att

RetryAttemptDown(att) == att - 1

RetryAttempt(att) == att + 1

\* lines 73, 80, 106, 110, 114, 117: the frame every failure path returns,
\* pd.DataFrame(), as a number of rows
ReturnedOnFailure(reason) == 0

OutOfAttemptsOffByOne(att, max) == att > max

\* line 78: no attempt is left
OutOfAttempts(att, max) == att >= max

CanForecastOnePoint(rows) == rows >= 1

\* line 148: the series is long enough for the forecast
CanForecast(rows) == rows >= MinForecastPoints

\* line 36: requests.get is given no timeout argument
SearchTimeoutSet == FALSE

\* The series lengths the provider answers with: short ones, and one long
\* enough to need no warning.
RowChoices == 0..MaxRows \cup {ReliablePoints}

RetryInitialInputDropped(initial) == None

RetryInitialInput(initial) == initial

(* ---------------- state ---------------- *)
VARIABLES
    pc,              \* where the script is
    user_input,      \* line 19, already upper-cased
    ticker_or_name,  \* load_data's parameters (the call is a tail call)
    attempt,
    max_attempts,
    initial_input,
    data,            \* rows of the series yf.download returned
    resolved_symbol, \* what getTicker returned
    stock_data,      \* rows of the frame load_data returned
    failure,         \* the st.error load_data reported, "none" if none
    exc,             \* the exception in flight, "none" if none
    downloads,       \* history: every yf.download call, in order
    lookups,         \* history: every getTicker call, in order
    http_gets,       \* history: number of requests.get calls
    shown            \* what the main logic displayed, in order

vars == <<pc, user_input, ticker_or_name, attempt, max_attempts, initial_input,
          data, resolved_symbol, stock_data, failure, exc, downloads, lookups,
          http_gets, shown>>

frame == <<ticker_or_name, attempt, max_attempts, initial_input>>

history == <<downloads, lookups, http_gets>>

ProviderErrors == {"ValueError", "OTHER"}

ProphetOutcomes == {"ok", "ValueError", "OTHER"}

Init ==
    /\ pc = "main"
    /\ user_input \in {upper(t) : t \in Text}
    /\ ticker_or_name = None
    /\ attempt = 0
    /\ max_attempts = DefaultMaxAttempts
    /\ initial_input = None
    /\ data = 0
    /\ resolved_symbol = None
    /\ stock_data = 0
    /\ failure = "none"
    /\ exc = "none"
    /\ downloads = <<>>
    /\ lookups = <<>>
    /\ http_gets = 0
    /\ shown = <<>>

(* ---------------- main application logic, lines 124-127, 181-182 ------- *)
MainCall ==
    /\ pc = "main"
    /\ user_input # <<>>
    /\ pc' = "load_data"
    /\ ticker_or_name' = user_input
    /\ attempt' = 0
    /\ max_attempts' = DefaultMaxAttempts
    /\ initial_input' = user_input
    /\ UNCHANGED <<user_input, data, resolved_symbol, stock_data, failure, exc,
                   history, shown>>

MainNoInput ==
    /\ pc = "main"
    /\ user_input = <<>>
    /\ pc' = "done"
    /\ shown' = Append(shown, "please_enter")
    /\ UNCHANGED <<user_input, frame, data, resolved_symbol, stock_data,
                   failure, exc, history>>

(* ---------------- load_data, lines 65-121 ---------------- *)
\* lines 71-82: the checks before the download
load_data_enter ==
    /\ pc = "load_data"
    /\ IF ~Truthy(ticker_or_name)
       THEN /\ failure' = "NoTicker"
            /\ stock_data' = ReturnedOnFailure("NoTicker")
            /\ pc' = "returned"
            /\ UNCHANGED initial_input
       ELSE /\ initial_input' =
                  IF initial_input = None THEN ticker_or_name ELSE initial_input
            /\ IF OutOfAttempts(attempt, max_attempts)
               THEN /\ failure' = "FailedAfterMaxAttempts"
                    /\ stock_data' = ReturnedOnFailure("FailedAfterMaxAttempts")
                    /\ pc' = "returned"
               ELSE /\ pc' = "download"
                    /\ UNCHANGED <<failure, stock_data>>
    /\ UNCHANGED <<user_input, ticker_or_name, attempt, max_attempts, data,
                   resolved_symbol, exc, history, shown>>

\* line 85: the provider answers with a series
yf_download ==
    /\ pc = "download"
    /\ \E rows \in RowChoices :
        /\ data' = rows
        /\ downloads' = Append(downloads,
              [symbol |-> ticker_or_name, rows |-> rows, error |-> "none"])
    /\ pc' = "downloaded"
    /\ UNCHANGED <<user_input, frame, resolved_symbol, stock_data, failure,
                   exc, lookups, http_gets, shown>>

yf_download_raises_swallowed ==
    /\ pc = "download"
    /\ \E e \in ProviderErrors :
        downloads' = Append(downloads,
              [symbol |-> ticker_or_name, rows |-> 0, error |-> e])
    /\ data' = 0
    /\ pc' = "downloaded"
    /\ UNCHANGED <<user_input, frame, resolved_symbol, stock_data, failure,
                   exc, lookups, http_gets, shown>>

\* line 85: the provider call raises; nothing in load_data catches it
yf_download_raises ==
    /\ pc = "download"
    /\ \E e \in ProviderErrors :
        /\ exc' = e
        /\ downloads' = Append(downloads,
              [symbol |-> ticker_or_name, rows |-> 0, error |-> e])
    /\ pc' = "except"
    /\ UNCHANGED <<user_input, frame, data, resolved_symbol, stock_data,
                   failure, lookups, http_gets, shown>>

\* lines 87-96 and 111-121: what load_data does with the downloaded series
load_data_downloaded ==
    /\ pc = "downloaded"
    /\ IF IsEmpty(data)
       THEN IF attempt < max_attempts - 1
            THEN IF ShouldLookup(ticker_or_name, initial_input, attempt)
                 THEN /\ pc' = "getTicker"
                      /\ UNCHANGED <<failure, stock_data>>
                 ELSE /\ failure' = "ResolvedAlsoFailed"
                      /\ stock_data' = ReturnedOnFailure("ResolvedAlsoFailed")
                      /\ pc' = "returned"
            ELSE /\ failure' = "ReachedMaxAttempts"
                 /\ stock_data' = ReturnedOnFailure("ReachedMaxAttempts")
                 /\ pc' = "returned"
       ELSE /\ stock_data' = data
            /\ pc' = "returned"
            /\ UNCHANGED failure
    /\ UNCHANGED <<user_input, frame, data, resolved_symbol, exc, history,
                   shown>>

\* line 98 with lines 25-63: one call of getTicker on the original input
getTicker_call ==
    /\ pc = "getTicker"
    /\ \E res \in Responses :
        LET r == getTicker(initial_input, res) IN
        /\ lookups' = Append(lookups,
              [query |-> initial_input, response |-> res,
               result |-> r.value, raised |-> r.raised])
        /\ http_gets' = http_gets + 1
        /\ IF r.raised = "none"
           THEN /\ resolved_symbol' = r.value
                /\ pc' = "resolved"
                /\ UNCHANGED exc
           ELSE /\ exc' = r.raised
                /\ pc' = "except"
                /\ UNCHANGED resolved_symbol
    /\ UNCHANGED <<user_input, frame, data, stock_data, failure, downloads,
                   shown>>

\* lines 100-110: retry with the resolved symbol, or give up
load_data_resolved ==
    /\ pc = "resolved"
    /\ IF IsNewSymbol(resolved_symbol, ticker_or_name)
       THEN /\ ticker_or_name' = RetrySymbol(resolved_symbol, ticker_or_name)
            /\ attempt' = RetryAttempt(attempt)
            /\ initial_input' = RetryInitialInput(initial_input)
            /\ pc' = "load_data"
            /\ UNCHANGED <<failure, stock_data>>
       ELSE /\ failure' = IF Truthy(resolved_symbol) THEN "AlreadyTried"
                          ELSE "CouldNotResolve"
            /\ stock_data' = ReturnedOnFailure(failure')
            /\ pc' = "returned"
            /\ UNCHANGED <<ticker_or_name, attempt, initial_input>>
    /\ UNCHANGED <<user_input, max_attempts, data, resolved_symbol, exc,
                   history, shown>>

(* ---------------- main application logic, lines 129-180 ---------------- *)
\* lines 129-138: the raw data is displayed
ShowRawData ==
    /\ pc = "returned"
    /\ stock_data # 0
    /\ shown' = Append(shown, "raw_data")
    /\ pc' = "forecasting"
    /\ UNCHANGED <<user_input, frame, data, resolved_symbol, stock_data,
                   failure, exc, history>>

\* lines 170-173: the load failed
ShowLoadFailed ==
    /\ pc = "returned"
    /\ stock_data = 0
    /\ shown' = Append(shown, "could_not_load")
    /\ pc' = "done"
    /\ UNCHANGED <<user_input, frame, data, resolved_symbol, stock_data,
                   failure, exc, history>>

\* lines 141-166: the forecast, when the series has at least 2 points
Forecast ==
    /\ pc = "forecasting"
    /\ CanForecast(stock_data)
    /\ \E out \in ProphetOutcomes :
        IF out = "ok"
        THEN /\ shown' = shown \o
                    (IF stock_data < ReliablePoints
                        THEN <<"few_points_warning">> ELSE <<>>)
                    \o <<"fitting", "forecast">>
             /\ pc' = "done"
             /\ UNCHANGED exc
        ELSE /\ shown' = shown \o
                    (IF stock_data < ReliablePoints
                        THEN <<"few_points_warning">> ELSE <<>>)
                    \o <<"fitting">>
             /\ exc' = out
             /\ pc' = "except"
    /\ UNCHANGED <<user_input, frame, data, resolved_symbol, stock_data,
                   failure, history>>

\* lines 145-148, 167-168: fewer than 2 points
ForecastInsufficient ==
    /\ pc = "forecasting"
    /\ ~CanForecast(stock_data)
    /\ shown' = shown \o <<"few_points_warning", "insufficient_data">>
    /\ pc' = "done"
    /\ UNCHANGED <<user_input, frame, data, resolved_symbol, stock_data,
                   failure, exc, history>>

\* lines 175-177
ExceptValueError ==
    /\ pc = "except"
    /\ "ValueError" \in Classes(exc)
    /\ shown' = Append(shown, "value_error")
    /\ pc' = "done"
    /\ UNCHANGED <<user_input, frame, data, resolved_symbol, stock_data,
                   failure, exc, history>>

\* lines 178-180
ExceptException ==
    /\ pc = "except"
    /\ "ValueError" \notin Classes(exc)
    /\ shown' = Append(shown, "exception_with_traceback")
    /\ pc' = "done"
    /\ UNCHANGED <<user_input, frame, data, resolved_symbol, stock_data,
                   failure, exc, history>>

Next ==
    \/ MainCall
    \/ MainNoInput
    \/ load_data_enter
    \/ yf_download
    \/ yf_download_raises
    \/ load_data_downloaded
    \/ getTicker_call
    \/ load_data_resolved
    \/ ShowRawData
    \/ ShowLoadFailed
    \/ Forecast
    \/ ForecastInsufficient
    \/ ExceptValueError
    \/ ExceptException

Spec == Init /\ [][Next]_vars

\* line 36 when the search service never answers: with a timeout the call
\* raises Timeout, which getTicker turns into None; without one the call,
\* and the script with it, waits for ever.
getTicker_no_response ==
    /\ pc = "getTicker"
    /\ http_gets' = http_gets + 1
    /\ IF SearchTimeoutSet
       THEN LET res == [kind |-> "Timeout", json |-> NoBody]
                r == getTicker(initial_input, res) IN
            /\ lookups' = Append(lookups,
                  [query |-> initial_input, response |-> res,
                   result |-> r.value, raised |-> r.raised])
            /\ resolved_symbol' = r.value
            /\ pc' = "resolved"
       ELSE /\ pc' = "blocked"
            /\ UNCHANGED <<lookups, resolved_symbol>>
    /\ UNCHANGED <<user_input, frame, data, stock_data, failure, exc,
                   downloads, shown>>

NextHang == Next \/ getTicker_no_response

\* The script when the search service may also never answer.
HangSpec == Init /\ [][NextHang]_vars /\ WF_vars(NextHang)

\* load_data called as a top-level call by any caller: any string, any
\* attempt and max_attempts, initial_input omitted or the same string.
InitCall ==
    /\ pc = "load_data"
    /\ user_input = None
    /\ ticker_or_name \in Text
    /\ attempt \in 0..MaxAttemptsArg
    /\ max_attempts \in 0..MaxAttemptsArg
    /\ initial_input \in {None, ticker_or_name}
    /\ data = 0
    /\ resolved_symbol = None
    /\ stock_data = 0
    /\ failure = "none"
    /\ exc = "none"
    /\ downloads = <<>>
    /\ lookups = <<>>
    /\ http_gets = 0
    /\ shown = <<>>

NextCall ==
    \/ MainCall
    \/ MainNoInput
    \/ load_data_enter
    \/ yf_download
    \/ yf_download_raises
    \/ load_data_downloaded
    \/ getTicker_call
    \/ load_data_resolved

\* The script up to the return of load_data, or a direct call of load_data.
CallSpec == (Init \/ InitCall) /\ [][NextCall]_vars

\* Every external call answers and the script keeps running.
FairSpec == Spec /\ WF_vars(Next)

TypeOK ==
    /\ pc \in {"main", "load_data", "download", "downloaded", "getTicker",
               "resolved", "returned", "forecasting", "except", "done",
               "blocked"}
    /\ attempt \in Int
    /\ data \in RowChoices
    /\ stock_data \in RowChoices

(* ---------------- observations used by the properties ---------------- *)
Last(seq) == seq[Len(seq)]

\* The symbols fetched so far in this load cycle (the spec's tried_symbols).
TriedOf(d) == {d[i].symbol : i \in DOMAIN d}

FetchedSymbols == [i \in DOMAIN downloads |-> downloads[i].symbol]

LoadRunning ==
    pc \in {"load_data", "download", "downloaded", "getTicker", "resolved"}

LoadSucceeded == stock_data # 0

LoadFailed == failure # "none"

LoadRaised ==
    \/ downloads # <<>> /\ Last(downloads).error # "none"
    \/ lookups # <<>> /\ Last(lookups).raised # "none"

LoadEnded == LoadSucceeded \/ LoadFailed \/ LoadRaised

AllFetchesEmpty ==
    \A i \in DOMAIN downloads :
        downloads[i].rows = 0 /\ downloads[i].error = "none"

\* The i-th lookup follows the i-th fetch: its result is fresh when it is a
\* symbol none of the first i fetches asked for, compared as the code compares
\* symbols (upper-cased).
FreshResultIgnoringCase(i) ==
    /\ Truthy(lookups[i].result)
    /\ \A j \in DOMAIN downloads :
          j <= i => upper(downloads[j].symbol) # upper(lookups[i].result)

\* The names section 7 of the spec gives to load_data's error reports.
NotFound == "CouldNotResolve"

CycleDetected == "AlreadyTried"

AttemptsExhausted == {"ReachedMaxAttempts", "FailedAfterMaxAttempts"}

(* ---------------- C1 ---------------- *)
\* C1: every load cycle terminates: once load_data is running it ends (it
\* returns a series, returns a failure, or an external call raised); a step
\* after a lookup either returns or strictly increases attempt, and attempt
\* never exceeds max_attempts.
C1_Terminates ==
    /\ LoadRunning ~> LoadEnded
    /\ [][pc = "resolved" => (pc' = "returned" \/ attempt' > attempt)]_vars
    /\ [](attempt <= max_attempts)

C1_Witness ==
    /\ LoadEnded
    /\ attempt = 1
    /\ Len(downloads) = 2
    /\ pc = "done"

C3_CycleDetected ==
    /\ [][(pc = "resolved" /\ resolved_symbol \in TriedOf(downloads))
            => (/\ pc' = "returned"
                /\ failure' = CycleDetected
                /\ stock_data' = 0
                /\ UNCHANGED history)]_vars
    /\ [][failure = CycleDetected
            => UNCHANGED <<history, failure, stock_data>>]_vars

C3_Witness ==
    /\ pc = "done"
    /\ failure = CycleDetected
    /\ Len(lookups) = 1
    /\ lookups[1].result \in TriedOf(downloads)

(* ---------------- C4 ---------------- *)
\* C4: when the direct fetch returns a non-empty series, load_data returns
\* that series at attempt 0 after exactly one fetch and no lookup is made.
C4_DirectSuccess ==
    (downloads # <<>> /\ downloads[1].error = "none" /\ downloads[1].rows > 0)
    => /\ attempt = 0
       /\ Len(downloads) = 1
       /\ lookups = <<>>
       /\ http_gets = 0
       /\ failure = "none"
       /\ pc \notin {"load_data", "download", "getTicker", "resolved"}
       /\ pc # "downloaded" => stock_data = downloads[1].rows

C4_Witness ==
    /\ pc = "done"
    /\ Len(downloads) = 1
    /\ downloads[1].rows > 0
    /\ stock_data = downloads[1].rows

C6_LookupOriginalQuery ==
    \A i \in DOMAIN lookups : lookups[i].query = user_input

C6_Witness ==
    /\ Len(lookups) = 1
    /\ Len(downloads) = 2
    /\ downloads[2].symbol # user_input
    /\ pc = "done"

(* ---------------- C7 ---------------- *)
\* C7: when the direct fetch is empty and the lookup returns a different
\* symbol (ignoring letter case), that symbol is the one fetched next; and
\* when that fetch is non-empty load_data returns its series with
\* attempt = 1, the symbols fetched being exactly <<query, resolved symbol>>.
C7_ResolvedSuccess ==
    /\ (/\ Len(lookups) >= 1
        /\ Truthy(lookups[1].result)
        /\ upper(lookups[1].result) # upper(user_input)
        /\ pc # "resolved")
       => \/ (/\ pc \in {"load_data", "download"}
              /\ ticker_or_name = lookups[1].result
              /\ attempt = 1)
          \/ (Len(downloads) >= 2 /\ downloads[2].symbol = lookups[1].result)
    /\ (/\ Len(downloads) >= 2
        /\ downloads[1].rows = 0
        /\ downloads[2].error = "none"
        /\ downloads[2].rows > 0
        /\ pc # "downloaded")
       => /\ stock_data = downloads[2].rows
          /\ failure = "none"
          /\ attempt = 1
          /\ Len(lookups) = 1
          /\ FetchedSymbols = <<user_input, lookups[1].result>>

C7_Witness ==
    /\ pc = "done"
    /\ Len(downloads) = 2
    /\ downloads[1].rows = 0
    /\ downloads[2].rows > 0
    /\ stock_data = downloads[2].rows

(* ---------------- C8 ---------------- *)
\* C8: when the fetch is empty and the lookup returns no match, the next step
\* returns the failure NotFound with no fetch and no lookup, and none happens
\* afterwards.
C8_NotFound ==
    /\ [][(pc = "resolved" /\ ~Truthy(resolved_symbol))
            => (/\ pc' = "returned"
                /\ failure' = NotFound
                /\ stock_data' = 0
                /\ UNCHANGED history)]_vars
    /\ [][failure = NotFound
            => UNCHANGED <<history, failure, stock_data>>]_vars

C8_Witness ==
    /\ pc = "done"
    /\ failure = NotFound
    /\ Len(downloads) = 1
    /\ Len(lookups) = 1
    /\ lookups[1].result = None

(* ---------------- C9 ---------------- *)
\* C9: attempt stays between 0 and max_attempts, never decreases from one
\* step to the next, and no symbol ever leaves the set of fetched symbols.
C9_AttemptState ==
    /\ [](attempt \in 0..max_attempts)
    /\ [][/\ attempt' >= attempt
          /\ TriedOf(downloads) \subseteq TriedOf(downloads')]_vars

C9_Witness ==
    /\ attempt = 1
    /\ Cardinality(TriedOf(downloads)) = 2
    /\ pc = "done"

(* ---------------- C10 ---------------- *)
\* A response that gives no symbol: an error, a body that is not a mapping,
\* no quotes, an empty quotes list, or a first entry without a symbol.
NoSymbolResponse(res) ==
    \/ res.kind # "OK"
    \/ ~res.json.is_mapping
    \/ ~res.json.has_quotes
    \/ res.json.quotes = <<>>
    \/ ~res.json.quotes[1].has_symbol

\* C10: no lookup raises to load_data; for a network error, a timeout, an
\* HTTP error, a non-JSON or malformed body or an empty match list it returns
\* None; and each lookup makes exactly one search request.
C10_ResolverNeverRaises ==
    /\ http_gets = Len(lookups)
    /\ \A i \in DOMAIN lookups :
          /\ lookups[i].raised = "none"
          /\ NoSymbolResponse(lookups[i].response) => lookups[i].result = None

C10_Witness ==
    /\ pc = "done"
    /\ Len(lookups) = 1
    /\ lookups[1].response.kind = "NotJSON"
    /\ lookups[1].result = None
    /\ failure = NotFound


(* ---------------- C11 ---------------- *)
\* C11: a lookup returns a symbol only when the response holds a non-empty
\* quotes list whose first entry has a non-empty symbol, and then returns
\* exactly that symbol; when quotes is absent or empty it returns None; the
\* query itself is never returned as a fallback.
C11_ResolvedSymbolFromResponse ==
    \A i \in DOMAIN lookups :
        LET res == lookups[i].response IN
        /\ lookups[i].result # None
            => /\ res.kind = "OK"
               /\ res.json.is_mapping
               /\ res.json.has_quotes
               /\ res.json.quotes # <<>>
               /\ res.json.quotes[1].has_symbol
               /\ res.json.quotes[1].symbol \in Text \ {<<>>}
               /\ lookups[i].result = res.json.quotes[1].symbol
        /\ (res.kind = "OK" /\ res.json.is_mapping
            /\ (~res.json.has_quotes \/ res.json.quotes = <<>>))
            => lookups[i].result = None

C11_Witness ==
    /\ pc = "done"
    /\ Len(lookups) = 1
    /\ lookups[1].result # None
    /\ lookups[1].result = lookups[1].response.json.quotes[1].symbol
    /\ lookups[1].result # lookups[1].query

(* ---------------- C12 ---------------- *)
\* C12: the frame load_data returns for a failure tells the reason: it is
\* not the frame a failure with another reason returns.
C12_Original ==
    (pc = "returned" /\ failure \in {NotFound, CycleDetected} \cup AttemptsExhausted)
    => \A other \in ({NotFound, CycleDetected} \cup AttemptsExhausted) \ {failure} :
          stock_data # ReturnedOnFailure(other)

(* ---------------- C13 ---------------- *)
\* C13: no external call leaves the load cycle waiting for ever for a service
\* that never answers.
C13_Original == pc # "blocked"

(* ---------------- C14 ---------------- *)
Displayed(what) == \E i \in DOMAIN shown : shown[i] = what

FetchRaised == \E i \in DOMAIN downloads : downloads[i].error # "none"

\* C14 as stated: an error raised by the price fetch or by the forecast is not
\* turned into a failed load; it reaches the top-level handler, and once the
\* script is done it was reported with its traceback, whatever its type.
C14_Original ==
    /\ FetchRaised
        => /\ exc = Last(downloads).error
           /\ pc \in {"except", "done"}
           /\ failure = "none"
    /\ (pc = "done" /\ exc # "none")
        => /\ ~Displayed("could_not_load")
           /\ Last(shown) = "exception_with_traceback"

\* C14 amended: an error raised by the price fetch or by the forecast is not
\* turned into a failed load; it reaches the top-level handler, which reports
\* an error that is not a ValueError with its traceback and a ValueError with
\* its message and a hint only, without a traceback.
C14_Amended ==
    /\ FetchRaised
        => /\ exc = Last(downloads).error
           /\ pc \in {"except", "done"}
           /\ failure = "none"
    /\ (pc = "done" /\ exc # "none")
        => /\ ~Displayed("could_not_load")
           /\ exc = "ValueError" => Last(shown) = "value_error"
           /\ exc # "ValueError" => Last(shown) = "exception_with_traceback"
           /\ ~(Displayed("value_error") /\ Displayed("exception_with_traceback"))

C14_Witness ==
    /\ pc = "done"
    /\ FetchRaised
    /\ exc = "ValueError"
    /\ Last(shown) = "value_error"

(* ---------------- C15 ---------------- *)
ForecastStage ==
    {"few_points_warning", "fitting", "forecast", "insufficient_data"}

\* C15: whatever the forecasting stage shows comes after the raw data; once a
\* successful load is past the display the raw data was shown first; a series
\* of fewer than 2 points never reaches the forecasting engine and ends with
\* the insufficient-data message; after a failed load neither the raw data
\* nor the forecasting engine appears.
C15_DisplayBeforeForecast ==
    /\ \A i \in DOMAIN shown :
          shown[i] \in ForecastStage
            => \E j \in 1..(i - 1) : shown[j] = "raw_data"
    /\ (stock_data # 0 /\ pc \in {"forecasting", "except", "done"})
        => shown[1] = "raw_data"
    /\ (stock_data # 0 /\ stock_data < 2)
        => /\ ~Displayed("fitting")
           /\ ~Displayed("forecast")
           /\ pc = "done" => Last(shown) = "insufficient_data"
    /\ (stock_data >= 2 /\ pc = "done") => Displayed("fitting")
    /\ stock_data = 0
        => /\ ~Displayed("raw_data")
           /\ ~Displayed("fitting")

C15_Witness ==
    /\ pc = "done"
    /\ stock_data = 1
    /\ shown = <<"raw_data", "few_points_warning", "insufficient_data">>

(* ---------------- C16 ---------------- *)
\* C16: within one load cycle no two fetches ask for the same symbol, compared
\* ignoring letter case.
C16_NoSymbolFetchedTwice ==
    \A i, j \in DOMAIN downloads :
        i < j => upper(downloads[i].symbol) # upper(downloads[j].symbol)

C16_Witness ==
    /\ Len(downloads) = 2
    /\ downloads[1].rows = 0
    /\ Len(lookups) = 1
    /\ pc = "done"

(* ---------------- C17 ---------------- *)
\* C17: an empty fetch at attempt > 0 of a symbol that differs from the
\* original input ends load_data at once with a failure and no lookup; and
\* for any max_attempts >= 2 a top-level call makes at most one lookup and at
\* most two fetches.
C17_OneLookupTwoFetches ==
    /\ [][(/\ pc = "downloaded"
           /\ data = 0
           /\ attempt > 0
           /\ upper(ticker_or_name) # upper(initial_input))
            => (/\ pc' = "returned"
                /\ failure' # "none"
                /\ stock_data' = 0
                /\ UNCHANGED history)]_vars
    /\ [](max_attempts >= 2 => (Len(lookups) <= 1 /\ Len(downloads) <= 2))

C17_Witness ==
    /\ pc = "returned"
    /\ max_attempts = 4
    /\ attempt = 1
    /\ failure = "ResolvedAlsoFailed"
    /\ Len(lookups) = 1
    /\ Len(downloads) = 2

(* ---------------- C18 ---------------- *)
\* C18: a lookup result equal to the symbol just fetched once both are
\* upper-cased ends the cycle with the already-tried failure and no fetch; a
\* retry follows a lookup only when the upper-cased symbols differ.
C18_CaseInsensitiveCheck ==
    /\ [][(/\ pc = "resolved"
           /\ Truthy(resolved_symbol)
           /\ upper(resolved_symbol) = upper(ticker_or_name))
            => (/\ pc' = "returned"
                /\ failure' = CycleDetected
                /\ UNCHANGED history)]_vars
    /\ [][(pc = "resolved" /\ pc' = "load_data")
            => upper(resolved_symbol) # upper(ticker_or_name)]_vars
    /\ [][failure = CycleDetected => UNCHANGED downloads]_vars

C18_Witness ==
    /\ pc = "done"
    /\ failure = CycleDetected
    /\ Len(lookups) = 1
    /\ Len(downloads) = 1
    /\ lookups[1].result # downloads[1].symbol
    /\ upper(lookups[1].result) = upper(downloads[1].symbol)

(* ---------------- C19 ---------------- *)
NoExternalCall == downloads = <<>> /\ lookups = <<>> /\ http_gets = 0

\* C19: with an empty user input the script starts no load cycle and calls no
\* external service; load_data called with an empty string, or with
\* attempt >= max_attempts, returns the empty frame with a failure report and
\* calls no external service.
C19_EmptyQueryNoExternalCall ==
    /\ user_input = <<>>
        => (NoExternalCall /\ pc \in {"main", "done"})
    /\ (pc # "main" /\ (ticker_or_name = <<>> \/ attempt >= max_attempts))
        => /\ NoExternalCall
           /\ pc \in {"load_data", "returned"}
           /\ pc = "returned"
                => /\ stock_data = 0
                   /\ failure \in {"NoTicker", "FailedAfterMaxAttempts"}
                   /\ ticker_or_name = <<>> => failure = "NoTicker"

C19_Witness ==
    /\ pc = "returned"
    /\ ticker_or_name = <<>>
    /\ attempt < max_attempts
    /\ failure = "NoTicker"
    /\ NoExternalCall

====
